---- MODULE Spec2Model ----
(***************************************************************************)
(* A model of gofr's HTTP response dispatch (Handler.ServeHTTP,            *)
(* processErrors, incrPrometheusCounter, evaluateTimeAndTimeZone) and of   *)
(* the MQTT adapter's Subscribe.                                           *)
(*                                                                         *)
(* Go values are records: an error carries a "kind" (its dynamic type)     *)
(* and that type's fields, a handler payload carries a "type".  The        *)
(* string an error's Error() method returns is ErrorString.                *)
(*                                                                         *)
(* net/http serves each request in a goroutine of its own.  A request is   *)
(* a process of the model; one step of it holds at most one access to      *)
(* state other requests can reach: the clock, the errors.Response objects  *)
(* handlers return by pointer, and the fault counter.                      *)
(***************************************************************************)
EXTENDS Naturals, Sequences, FiniteSets, TLC

VARIABLES
    pc,               \* each request's position in ServeHTTP / processErrors
    data,             \* the payload the request's handler returned
    err,              \* the error the handler returned, as it was when returned
    started,          \* the reading of the clock when the handler returned
    ended,            \* the reading of the clock when Respond was called
    arg,              \* the error of the processErrors call the request is in
    stack,            \* the loops of lines 109-117 the request is in, innermost first
    errResp,          \* errResp of the processErrors call the request is in
    pending,          \* the fields of DateTime still to copy on line 93 or line 102
    errorResp,        \* errorResp of ServeHTTP (line 42)
    respondCalls,     \* the calls c.resp.Respond(body, errorResp) of the request
    aggregatorCalls,  \* the calls of processErrors made by ServeHTTP in the request
    incCalls,         \* the labels of the .Inc() calls made in the request
    ctxErrorMessage,  \* the request context's middleware.ErrorMessage value: <<>> or <<msg>>
    ErrorTypesStats,  \* middleware.ErrorTypesStats: label -> count
    heap,             \* the DateTime written into each errors.Response object ("": not written)
    clock,            \* the reading time.Now() gives now (a position of Instants)
    order,            \* MQTT: Config.Order (handlers run one at a time)
    route,            \* MQTT: the call whose handler the client routes the topic to (0: none)
    sub,              \* MQTT: each Subscribe call's position
    ret,              \* MQTT: each Subscribe call's returned message (0: none)
    inv,              \* MQTT: the handler invocations, in delivery order
    published         \* MQTT: number of messages delivered by the broker

reqVars == <<pc, data, err, started, ended, arg, stack, errResp, pending, errorResp,
             respondCalls, aggregatorCalls, incCalls, ctxErrorMessage>>
httpVars == <<pc, data, err, started, ended, arg, stack, errResp, pending, errorResp,
              respondCalls, aggregatorCalls, incCalls, ctxErrorMessage,
              ErrorTypesStats, heap, clock>>
mqttVars == <<order, route, sub, ret, inv, published>>
vars == <<pc, data, err, started, ended, arg, stack, errResp, pending, errorResp,
          respondCalls, aggregatorCalls, incCalls, ctxErrorMessage,
          ErrorTypesStats, heap, clock,
          order, route, sub, ret, inv, published>>

(***************************************************************************)
(* Bounds.                                                                 *)
(***************************************************************************)
\* nodes (leaf errors and MultipleErrors containers) of a handler's error value
MaxNodes == 4
\* Subscribe calls made on one MQTT client
MaxCalls == 2
\* messages the broker delivers on the topic
MaxMsgs == 3

(***************************************************************************)
(* net/http status codes used by processErrors.                            *)
(***************************************************************************)
StatusBadRequest == 400
StatusNotFound == 404
StatusMethodNotAllowed == 405
StatusInternalServerError == 500

(***************************************************************************)
(* Error values.                                                           *)
(***************************************************************************)
Nil == [kind |-> "nil"]

InvalidParam(p) == [kind |-> "InvalidParam", Param |-> p]
MissingParam(p) == [kind |-> "MissingParam", Param |-> p]
EntityNotFound(e, i) == [kind |-> "EntityNotFound", Entity |-> e, ID |-> i]
FileNotFound(f) == [kind |-> "FileNotFound", FileName |-> f]
MethodMissing(m, u) == [kind |-> "MethodMissing", Method |-> m, URL |-> u]
EntityAlreadyExists == [kind |-> "EntityAlreadyExists"]
DB(msg) == [kind |-> "DB", Err |-> msg]
Raw(st, msg) == [kind |-> "Raw", StatusCode |-> st, Err |-> msg]
MultipleErrors(st, es) == [kind |-> "MultipleErrors", StatusCode |-> st, Errors |-> es]
\* an error of a type processErrors does not name
Unclassified(msg) == [kind |-> "Unclassified", msg |-> msg]
\* *errors.Response: a pointer to the object ptr, which holds these fields
Response(ptr, st, code, reason, value, zone) ==
    [kind |-> "Response", ptr |-> ptr, StatusCode |-> st, Code |-> code, Reason |-> reason,
     ResourceID |-> "", Path |-> "", DateTime |-> [Value |-> value, TimeZone |-> zone]]

\* The messages of the errors a DB error wraps; no other error of the model
\* carries one of them.
DBMessages == {"row not found", "redis: nil"}

RECURSIVE JoinLines(_)
\* The Error() strings of a sequence of errors, one per line.
RECURSIVE ErrorString(_)
ErrorString(e) ==
    CASE e.kind = "InvalidParam" ->
            IF Len(e.Param) = 0 THEN "This request has invalid parameters"
            ELSE "Incorrect value for parameter: " \o e.Param[1]
      [] e.kind = "MissingParam" ->
            IF Len(e.Param) = 0 THEN "This request is missing parameters"
            ELSE "Parameter " \o e.Param[1] \o " is required for this request"
      [] e.kind = "EntityNotFound" ->
            "No '" \o e.Entity \o "' found for Id: '" \o e.ID \o "'"
      [] e.kind = "FileNotFound" -> "File " \o e.FileName \o " not found"
      [] e.kind = "MethodMissing" ->
            "Method '" \o e.Method \o "' for '" \o e.URL \o "' not defined yet"
      [] e.kind = "EntityAlreadyExists" -> "Entity already exists"
      [] e.kind = "DB" -> e.Err
      [] e.kind = "Raw" -> e.Err
      [] e.kind = "Response" -> e.Reason
      [] e.kind = "MultipleErrors" -> JoinLines(e.Errors)
      [] e.kind = "Unclassified" -> e.msg

JoinLines(es) ==
    IF Len(es) = 0 THEN ""
    ELSE IF Len(es) = 1 THEN ErrorString(es[1])
    ELSE ErrorString(es[1]) \o "\n" \o JoinLines(Tail(es))

(***************************************************************************)
(* time.Now(), Time.UTC().Format(time.RFC3339) and Time.Zone().            *)
(***************************************************************************)
\* The readings the wall clock can give, in order: Unix seconds and the
\* abbreviation of the local zone in effect then (Europe/Berlin at the end of
\* summer time in 2023).
Instants ==
    << [unix |-> 1698541199, zone |-> "CEST"],
       [unix |-> 1698541200, zone |-> "CET"] >>

Digit(d) ==
    CASE d = 0 -> "0" [] d = 1 -> "1" [] d = 2 -> "2" [] d = 3 -> "3" [] d = 4 -> "4"
      [] d = 5 -> "5" [] d = 6 -> "6" [] d = 7 -> "7" [] d = 8 -> "8" [] d = 9 -> "9"

Pad2(n) == Digit((n \div 10) % 10) \o Digit(n % 10)
Pad4(n) == Pad2(n \div 100) \o Pad2(n % 100)

\* the civil date [y, m, d] of the day `days` days after 1970-01-01
CivilFromDays(days) ==
    LET z == days + 719468
        era == z \div 146097
        doe == z - era * 146097
        yoe == (doe - doe \div 1460 + doe \div 36524 - doe \div 146096) \div 365
        doy == doe - (365 * yoe + yoe \div 4 - yoe \div 100)
        mp == (5 * doy + 2) \div 153
        m == IF mp < 10 THEN mp + 3 ELSE mp - 9
    IN [y |-> yoe + era * 400 + (IF m <= 2 THEN 1 ELSE 0),
        m |-> m,
        d |-> doy - (153 * mp + 2) \div 5 + 1]

\* Time.UTC().Format(time.RFC3339) of the instant `unix` seconds after the epoch
FormatRFC3339(unix) ==
    LET date == CivilFromDays(unix \div 86400)
        secs == unix % 86400
    IN Pad4(date.y) \o "-" \o Pad2(date.m) \o "-" \o Pad2(date.d) \o "T"
       \o Pad2(secs \div 3600) \o ":" \o Pad2((secs % 3600) \div 60) \o ":"
       \o Pad2(secs % 60) \o "Z"

\* evaluateTimeAndTimeZone when time.Now() gives the reading `now`
evaluateTimeAndTimeZone(now) ==
    [Value |-> FormatRFC3339(now.unix), TimeZone |-> now.zone]

\* what evaluateTimeAndTimeZone returns at each reading of Instants
Stamps == [i \in 1..Len(Instants) |-> evaluateTimeAndTimeZone(Instants[i])]

(***************************************************************************)
(* Handler payloads (the interface{} a handler returns).                   *)
(***************************************************************************)
NilData == [type |-> "nil"]
Inner == [type |-> "string", val |-> "hello"]

Payloads ==
    { NilData,
      [type |-> "types.Response", Data |-> Inner],
      [type |-> "*types.Response", Data |-> Inner],
      [type |-> "template.Template", File |-> "index.html"],
      [type |-> "template.File", File |-> "logo.png"],
      [type |-> "types.RawWithOptions", Data |-> Inner],
      [type |-> "types.Raw", Data |-> Inner],
      [type |-> "map", val |-> "users"] }

\* the payloads returned beside the error e: each of Payloads beside nil or a
\* single error, none or a map beside a MultipleErrors
PayloadsWith(e) ==
    IF e.kind = "MultipleErrors"
    THEN { NilData, [type |-> "map", val |-> "users"] }
    ELSE Payloads

(***************************************************************************)
(* Handler errors: nil, every leaf error, and MultipleErrors trees of at   *)
(* most MaxNodes nodes over NestLeaves.  A *errors.Response carries the    *)
(* identity of the object it points to (ptr): two leaves with the same     *)
(* ptr are the same object.                                                *)
(***************************************************************************)
Ptrs == {1, 2}
PresetValue == "2020-01-01T00:00:00Z"

TopLeaves ==
    { InvalidParam(<<>>), InvalidParam(<<"id">>),
      MissingParam(<<>>), MissingParam(<<"name">>),
      EntityNotFound("user", "1"), FileNotFound("a.txt"),
      MethodMissing("POST", "/dummy"), EntityAlreadyExists }
    \cup { DB(m) : m \in DBMessages }
    \cup { Raw(st, "raw body") : st \in {0, 418, 500} }
    \cup { Unclassified(m) : m \in {"", "boom"} }
    \cup { Response(1, st, "ERR", reason, value, zone) :
             st \in {0, 400, 500}, reason \in {"", "bad input"},
             value \in {"", PresetValue}, zone \in {"", "PST"} }

\* two errors.Response objects handlers keep and return by pointer
BadInput == Response(1, 400, "ERR", "bad input", "", "")
Gone == Response(2, 404, "GONE", "no such user", "", "PST")

NestLeaves ==
    { DB("row not found"), Raw(418, "raw body"), Unclassified("boom"), BadInput, Gone }

MultiStatuses == {207, 400}

RECURSIVE TreesExact(_)
RECURSIVE ForestsExact(_)
\* the error values of exactly n nodes
TreesExact(n) ==
    IF n = 0 THEN {}
    ELSE IF n = 1 THEN NestLeaves \cup { MultipleErrors(st, <<>>) : st \in MultiStatuses }
    ELSE { MultipleErrors(st, f) : st \in MultiStatuses, f \in ForestsExact(n - 1) }

\* the sequences of error values of exactly k nodes in total
ForestsExact(k) ==
    IF k = 0 THEN { <<>> }
    ELSE UNION { { <<t>> \o f : t \in TreesExact(j), f \in ForestsExact(k - j) } :
                 j \in 1..k }

HandlerErrors ==
    {Nil} \cup TopLeaves \cup UNION { TreesExact(n) : n \in 1..MaxNodes }

\* what the handlers of requests that overlap or follow one another return
SharedErrors ==
    { BadInput, Gone, DB("row not found"), MultipleErrors(207, <<BadInput, BadInput>>) }
SharedPayloads == { NilData, [type |-> "map", val |-> "users"] }

(***************************************************************************)
(* incrPrometheusCounter: the labels it increments (none or one).          *)
(***************************************************************************)
Label(t, path, method) == [type |-> t, path |-> path, method |-> method]

incrPrometheusCounter(isPartialError, er, label) ==
    IF (er.StatusCode = StatusInternalServerError \/ er.StatusCode = 0)
       /\ ~isPartialError
    THEN <<label>>
    ELSE <<>>

(***************************************************************************)
(* The errors.Response objects handlers return by pointer.  An error       *)
(* value of kind "Response" holds the fields as the handler set them;      *)
(* heap holds what was written into the object since.                      *)
(***************************************************************************)
NoDateTime == [Value |-> "", TimeZone |-> ""]
DateTimeFields == {"Value", "TimeZone"}

\* the field f of v.DateTime, read now
LoadField(v, h, f) ==
    IF h[v.ptr][f] # "" THEN h[v.ptr][f] ELSE v.DateTime[f]

\* the struct the *errors.Response v points to, read now
Load(v, h) ==
    [v EXCEPT !.DateTime = [f \in DateTimeFields |-> LoadField(v, h, f)]]

RECURSIVE Deref(_, _)
\* the error value e with the objects it points to as they are now
Deref(e, h) ==
    CASE e.kind = "Response" -> Load(e, h)
      [] e.kind = "MultipleErrors" ->
           [e EXCEPT !.Errors = [i \in 1..Len(e.Errors) |-> Deref(e.Errors[i], h)]]
      [] OTHER -> e

(***************************************************************************)
(* processErrors: the parts of one call.  The outcome of a call that does  *)
(* not go through case *errors.Response is [multi, incs]: the              *)
(* MultipleErrors it returns and the labels it incremented.                *)
(***************************************************************************)
\* errResp after lines 70-73, time.Now() giving the reading i
NewErrResp(e, i) ==
    [kind |-> "Response", StatusCode |-> 0, Code |-> "", Reason |-> ErrorString(e),
     ResourceID |-> "", Path |-> "", DateTime |-> Stamps[i]]

\* line 146: one error, the status code of errResp
Single(er, incs) ==
    [multi |-> MultipleErrors(er.StatusCode, <<er>>), incs |-> incs]

\* cases InvalidParam .. MethodMissing: a status code and a code
Classified(er, status, code) ==
    Single([er EXCEPT !.StatusCode = status, !.Code = code], <<>>)

\* line 102, errResp = *v: the fields of the struct other than DateTime,
\* which is copied field by field (Line102)
CopyOf(v, dateTime) ==
    [kind |-> "Response", StatusCode |-> v.StatusCode, Code |-> v.Code,
     Reason |-> v.Reason, ResourceID |-> v.ResourceID, Path |-> v.Path,
     DateTime |-> dateTime]

\* Variant of DBErrResp: the reason is left as the wrapped error's message.
DBErrResp_KeepReason(er) ==
    [er EXCEPT !.StatusCode = StatusInternalServerError,
               !.Code = "Internal Server Error"]

\* case errors.DB: errResp as set on lines 121-123
DBErrResp(er) ==
    [er EXCEPT !.StatusCode = StatusInternalServerError,
               !.Code = "Internal Server Error",
               !.Reason = "DB Error"]

caseDB(er, path, method) ==
    Single(DBErrResp(er),
           incrPrometheusCounter(FALSE, DBErrResp(er), Label("DB error", path, method)))

\* case errors.Raw
caseRaw(v) ==
    [multi |-> MultipleErrors(v.StatusCode, <<v>>), incs |-> <<>>]

\* Variant of DefaultErrResp: the status code is left unset.
DefaultErrResp_NoStatus(er) ==
    [er EXCEPT !.Code = "Internal Server Error"]

\* default: errResp as set on lines 136-137
DefaultErrResp(er) ==
    [er EXCEPT !.StatusCode = StatusInternalServerError,
               !.Code = "Internal Server Error"]

caseDefault(er, path, method, isPartialError) ==
    Single(DefaultErrResp(er),
           incrPrometheusCounter(isPartialError, DefaultErrResp(er),
                                 Label("DB error", path, method)))

\* the switch of lines 75-144 for an error that is neither a *errors.Response
\* nor an errors.MultipleErrors, and the return of line 134 or 146
caseLeaf(e, er, path, method, isPartialError) ==
    CASE e.kind = "InvalidParam" ->
           Classified(er, StatusBadRequest, "Invalid Parameter")
      [] e.kind = "MissingParam" ->
           Classified(er, StatusBadRequest, "Missing Parameter")
      [] e.kind = "EntityNotFound" ->
           Classified(er, StatusNotFound, "Entity Not Found")
      [] e.kind = "FileNotFound" ->
           Classified(er, StatusNotFound, "File Not Found")
      [] e.kind = "MethodMissing" ->
           Classified(er, StatusMethodNotAllowed, "Method not allowed")
      [] e.kind = "DB" -> caseDB(er, path, method)
      [] e.kind = "Raw" -> caseRaw(e)
      [] OTHER -> caseDefault(er, path, method, isPartialError)

\* case errors.MultipleErrors: finalErr before the loop
NewFinalErr(v) == MultipleErrors(v.StatusCode, <<>>)

\* Variant of AppendErrors: a child's errors are put in front of the earlier ones.
AppendErrors_Prepend(finalErr, errs) ==
    [finalErr EXCEPT !.Errors = errs.Errors \o finalErr.Errors]

\* Variant of AppendErrors: a Raw ends the aggregation; it alone is kept, with its
\* status code.
AppendErrors_RawShortCircuit(finalErr, errs) ==
    IF Len(finalErr.Errors) = 1 /\ finalErr.Errors[1].kind = "Raw" THEN finalErr
    ELSE IF \E i \in 1..Len(errs.Errors) : errs.Errors[i].kind = "Raw"
    THEN LET i == CHOOSE j \in 1..Len(errs.Errors) : errs.Errors[j].kind = "Raw"
         IN [finalErr EXCEPT !.StatusCode = errs.Errors[i].StatusCode,
                             !.Errors = <<errs.Errors[i]>>]
    ELSE [finalErr EXCEPT !.Errors = finalErr.Errors \o errs.Errors]

\* line 116: finalErr.Errors = append(finalErr.Errors, errs.Errors...)
AppendErrors(finalErr, errs) ==
    [finalErr EXCEPT !.Errors = finalErr.Errors \o errs.Errors]

\* a loop of lines 109-117 about to call processErrors for Head(es)
Frame(finalErr, es) == [finalErr |-> finalErr, todo |-> Tail(es)]

RECURSIVE rangeErrors(_, _)
\* A call of processErrors returns errs to the loops of st.  The innermost
\* loop appends (line 116) and calls processErrors for its next error; a loop
\* that has none returns its finalErr (line 119) to the loop around it; with
\* no loop left the call was ServeHTTP's (line 48).
rangeErrors(st, errs) ==
    IF st = <<>>
    THEN [stack |-> <<>>, arg |-> Nil, errorResp |-> errs, pc |-> "respond"]
    ELSE LET finalErr == AppendErrors(Head(st).finalErr, errs)
             todo == Head(st).todo
         IN IF todo # <<>>
            THEN [stack |-> <<Frame(finalErr, todo)>> \o Tail(st),
                  arg |-> Head(todo), errorResp |-> Nil, pc |-> "processErrors"]
            ELSE rangeErrors(Tail(st), finalErr)

(***************************************************************************)
(* Handler.ServeHTTP.                                                      *)
(***************************************************************************)
\* the route's path template (a string is the sequence of its characters)
\* and the request's method
PathTemplate == <<"/", "u", "s", "e", "r", "/">>
Method == "GET"

\* strings.TrimSuffix(s, suffix)
TrimSuffix(s, suffix) ==
    IF /\ Len(s) >= Len(suffix)
       /\ SubSeq(s, Len(s) - Len(suffix) + 1, Len(s)) = suffix
    THEN SubSeq(s, 1, Len(s) - Len(suffix))
    ELSE s

\* lines 38-40
RoutePath == TrimSuffix(PathTemplate, <<"/">>)

LabelTypes == {"Unknown Error", "DB error"}
Labels == { Label(t, RoutePath, Method) : t \in LabelTypes }

\* Variant of PassedThrough: only a nil error is handed on as it is.
PassedThrough_NilOnly(e) == e = Nil

\* line 44: the error is handed on as it is
PassedThrough(e) == e.kind = "EntityAlreadyExists" \/ e = Nil

\* Variant of WireBody: no case for types.Raw, which is wrapped like any other value.
WireBody_NoRawCase(d) ==
    CASE d.type = "types.Response" -> [type |-> "*types.Response", Data |-> d.Data]
      [] d.type \in {"template.Template", "template.File", "*types.Response",
                     "types.RawWithOptions"} -> d
      [] OTHER -> [type |-> "*types.Response", Data |-> d]

\* lines 55-65: the first argument of Respond
WireBody(d) ==
    CASE d.type = "types.Response" -> [type |-> "*types.Response", Data |-> d.Data]
      [] d.type \in {"template.Template", "template.File", "*types.Response",
                     "types.RawWithOptions"} -> d
      [] d.type = "types.Raw" -> d.Data
      [] OTHER -> [type |-> "*types.Response", Data |-> d]

RECURSIVE Count(_, _)
\* occurrences of x in the sequence s
Count(s, x) ==
    IF s = <<>> THEN 0
    ELSE (IF Head(s) = x THEN 1 ELSE 0) + Count(Tail(s), x)

\* the requests served, named in the order in which their handlers return
Requests == {"A", "B"}
First == "A"

\* Bound on the inputs: requests overlap or follow one another only when the
\* first one's handler returned one of SharedErrors beside one of
\* SharedPayloads, and then the later one's handler does so too.
Admitted(r) ==
    \/ r = First
    \/ /\ pc[First] # "handler"
       /\ err[First] \in SharedErrors
       /\ data[First] \in SharedPayloads

ErrorsOf(r) == IF r = First THEN HandlerErrors ELSE SharedErrors
PayloadsOf(r, e) == IF r = First THEN PayloadsWith(e) ELSE SharedPayloads

HttpInit ==
    /\ pc = [r \in Requests |-> "handler"]
    /\ data = [r \in Requests |-> NilData]
    /\ err = [r \in Requests |-> Nil]
    /\ started = [r \in Requests |-> 1]
    /\ ended = [r \in Requests |-> 1]
    /\ arg = [r \in Requests |-> Nil]
    /\ stack = [r \in Requests |-> <<>>]
    /\ errResp = [r \in Requests |-> Nil]
    /\ pending = [r \in Requests |-> {}]
    /\ errorResp = [r \in Requests |-> Nil]
    /\ respondCalls = [r \in Requests |-> <<>>]
    /\ aggregatorCalls = [r \in Requests |-> 0]
    /\ incCalls = [r \in Requests |-> <<>>]
    /\ ctxErrorMessage = [r \in Requests |-> <<>>]
    /\ ErrorTypesStats = [l \in Labels |-> 0]
    /\ heap = [p \in Ptrs |-> NoDateTime]
    /\ clock = 1

\* the next reading of the clock
Tick ==
    /\ clock < Len(Instants)
    /\ clock' = clock + 1
    /\ UNCHANGED <<reqVars, ErrorTypesStats, heap>>
    /\ UNCHANGED mqttVars

\* Lines 32-49 up to the call of processErrors: the handler of request r
\* returns (d, e).
ServeHTTP(r) ==
    /\ pc[r] = "handler"
    /\ Admitted(r)
    /\ \E e \in ErrorsOf(r) :
         \E d \in PayloadsOf(r, e) :
           /\ data' = [data EXCEPT ![r] = d]
           /\ err' = [err EXCEPT ![r] = Deref(e, heap)]
           /\ IF PassedThrough(e)
              THEN /\ errorResp' = [errorResp EXCEPT ![r] = e]
                   /\ aggregatorCalls' = [aggregatorCalls EXCEPT ![r] = 0]
                   /\ pc' = [pc EXCEPT ![r] = "respond"]
                   /\ arg' = arg
              ELSE /\ errorResp' = errorResp
                   /\ aggregatorCalls' = [aggregatorCalls EXCEPT ![r] = 1]
                   /\ pc' = [pc EXCEPT ![r] = "processErrors"]
                   /\ arg' = [arg EXCEPT ![r] = e]
    /\ started' = [started EXCEPT ![r] = clock]
    /\ UNCHANGED <<ended, stack, errResp, pending, respondCalls, incCalls,
                   ctxErrorMessage, ErrorTypesStats, heap, clock>>
    /\ UNCHANGED mqttVars

\* the calls of .Inc() for the labels incs, made by request r
Inc(r, incs) ==
    /\ incCalls' = [incCalls EXCEPT ![r] = @ \o incs]
    /\ ErrorTypesStats' = [l \in Labels |-> ErrorTypesStats[l] + Count(incs, l)]

\* request r goes on as nx says: after a return (rangeErrors) or into a call
GoOn(r, nx) ==
    /\ stack' = [stack EXCEPT ![r] = nx.stack]
    /\ arg' = [arg EXCEPT ![r] = nx.arg]
    /\ errorResp' = [errorResp EXCEPT ![r] = nx.errorResp]
    /\ pc' = [pc EXCEPT ![r] = nx.pc]

\* the call has returned and incremented the labels incs; nx is what follows
Returned(nx, incs) ==
    [stack |-> nx.stack, arg |-> nx.arg, errorResp |-> nx.errorResp, pc |-> nx.pc,
     incs |-> incs, errResp |-> Nil]

\* One call of processErrors, for arg[r]: lines 70-73 with their reading of
\* the clock, and the switch.  For a *errors.Response the call goes on with
\* line 92.  For an errors.MultipleErrors it reads the clock once more (line
\* 106, a value it never uses) and enters the loop, or returns an empty
\* finalErr.  For any other error it runs to its return.
processErrors(r) ==
    /\ pc[r] = "processErrors"
    /\ LET e == arg[r]
           er == NewErrResp(e, clock)
       IN \E nx \in
            { CASE e.kind = "Response" ->
                     [stack |-> stack[r], arg |-> e, errorResp |-> Nil,
                      pc |-> "line92", incs |-> <<>>, errResp |-> er]
                [] e.kind = "MultipleErrors" /\ e.Errors # <<>> ->
                     [stack |-> <<Frame(NewFinalErr(e), e.Errors)>> \o stack[r],
                      arg |-> Head(e.Errors), errorResp |-> Nil,
                      pc |-> "processErrors", incs |-> <<>>, errResp |-> Nil]
                [] e.kind = "MultipleErrors" /\ e.Errors = <<>> ->
                     Returned(rangeErrors(stack[r], NewFinalErr(e)), <<>>)
                [] OTHER ->
                     LET res == caseLeaf(e, er, RoutePath, Method, data[r] # NilData)
                     IN Returned(rangeErrors(stack[r], res.multi), res.incs) } :
            /\ GoOn(r, nx)
            /\ Inc(r, nx.incs)
            /\ errResp' = [errResp EXCEPT ![r] = nx.errResp]
    /\ UNCHANGED <<data, err, started, ended, pending, respondCalls, aggregatorCalls,
                   ctxErrorMessage, heap, clock>>
    /\ UNCHANGED mqttVars

\* line 92: v.DateTime.Value == ""
Line92(r) ==
    /\ pc[r] = "line92"
    /\ IF LoadField(arg[r], heap, "Value") = ""
       THEN /\ pc' = [pc EXCEPT ![r] = "line93"]
            /\ pending' = [pending EXCEPT ![r] = DateTimeFields]
       ELSE /\ pc' = [pc EXCEPT ![r] = "line96"]
            /\ pending' = pending
    /\ UNCHANGED <<data, err, started, ended, arg, stack, errResp, errorResp,
                   respondCalls, aggregatorCalls, incCalls, ctxErrorMessage,
                   ErrorTypesStats, heap, clock>>
    /\ UNCHANGED mqttVars

\* line 93, v.DateTime = errResp.DateTime: one of the two strings is written
\* into the object.  Nothing orders the accesses of lines 92, 93 and 102 of
\* different requests to one object; the strings are taken one at a time, in
\* either order.
Line93(r, f) ==
    /\ pc[r] = "line93"
    /\ f \in pending[r]
    /\ heap' = [heap EXCEPT ![arg[r].ptr][f] = errResp[r].DateTime[f]]
    /\ pending' = [pending EXCEPT ![r] = @ \ {f}]
    /\ pc' = [pc EXCEPT ![r] = IF pending[r] = {f} THEN "line96" ELSE "line93"]
    /\ UNCHANGED <<data, err, started, ended, arg, stack, errResp, errorResp,
                   respondCalls, aggregatorCalls, incCalls, ctxErrorMessage,
                   ErrorTypesStats, clock>>
    /\ UNCHANGED mqttVars

\* lines 96-100: incrPrometheusCounter is given errResp as lines 70-73 left it
Line96(r) ==
    /\ pc[r] = "line96"
    /\ Inc(r, incrPrometheusCounter(data[r] # NilData, errResp[r],
                                    Label("Unknown Error", RoutePath, Method)))
    /\ pc' = [pc EXCEPT ![r] = "line102"]
    /\ pending' = [pending EXCEPT ![r] = DateTimeFields]
    /\ UNCHANGED <<data, err, started, ended, arg, stack, errResp, errorResp,
                   respondCalls, aggregatorCalls, ctxErrorMessage, heap, clock>>
    /\ UNCHANGED mqttVars

\* line 102, errResp = *v: one of the two strings of DateTime is read from the
\* object; after the second the call returns (line 146)
Line102(r, f) ==
    /\ pc[r] = "line102"
    /\ f \in pending[r]
    /\ LET dateTime == [errResp[r].DateTime EXCEPT ![f] = LoadField(arg[r], heap, f)]
       IN IF pending[r] = {f}
          THEN /\ \E nx \in {rangeErrors(stack[r], Single(CopyOf(arg[r], dateTime), <<>>).multi)} :
                    GoOn(r, nx)
               /\ errResp' = [errResp EXCEPT ![r] = Nil]
          ELSE /\ errResp' = [errResp EXCEPT ![r].DateTime = dateTime]
               /\ UNCHANGED <<stack, arg, errorResp, pc>>
    /\ pending' = [pending EXCEPT ![r] = @ \ {f}]
    /\ UNCHANGED <<data, err, started, ended, respondCalls, aggregatorCalls, incCalls,
                   ctxErrorMessage, ErrorTypesStats, heap, clock>>
    /\ UNCHANGED mqttVars

\* lines 51-65: the context attribute and the call of Respond
Respond(r) ==
    /\ pc[r] = "respond"
    /\ ctxErrorMessage' =
          [ctxErrorMessage EXCEPT ![r] = IF aggregatorCalls[r] = 0 THEN <<>>
                                         ELSE <<ErrorString(err[r])>>]
    /\ respondCalls' =
          [respondCalls EXCEPT ![r] = <<[body |-> WireBody(data[r]), err |-> errorResp[r]]>>]
    /\ ended' = [ended EXCEPT ![r] = clock]
    /\ pc' = [pc EXCEPT ![r] = "done"]
    /\ UNCHANGED <<data, err, started, arg, stack, errResp, pending, errorResp,
                   aggregatorCalls, incCalls, ErrorTypesStats, heap, clock>>
    /\ UNCHANGED mqttVars

MqttIdle ==
    /\ order = FALSE
    /\ route = 0
    /\ sub = [c \in 1..MaxCalls |-> "idle"]
    /\ ret = [c \in 1..MaxCalls |-> 0]
    /\ inv = <<>>
    /\ published = 0

Init == HttpInit /\ MqttIdle

Next ==
    \/ Tick
    \/ \E r \in Requests : ServeHTTP(r)
    \/ \E r \in Requests : processErrors(r)
    \/ \E r \in Requests : Line92(r)
    \/ \E r \in Requests : \E f \in DateTimeFields : Line93(r, f)
    \/ \E r \in Requests : Line96(r)
    \/ \E r \in Requests : \E f \in DateTimeFields : Line102(r, f)
    \/ \E r \in Requests : Respond(r)

Spec == Init /\ [][Next]_vars

(***************************************************************************)
(* MQTT.Subscribe on one client and one topic.  A call makes a channel     *)
(* and a handler that sends on it, registers the handler for the topic     *)
(* (the client keeps one handler per topic: the latest), waits for the     *)
(* subscription token and then receives once from the channel.  The        *)
(* client runs the registered handler for every message that arrives:      *)
(* one at a time when Config.Order is set, each in a goroutine of its own  *)
(* otherwise.                                                              *)
(***************************************************************************)
Calls == 1..MaxCalls

MqttStart ==
    /\ order \in BOOLEAN
    /\ route = 0
    /\ sub = [c \in Calls |-> "idle"]
    /\ ret = [c \in Calls |-> 0]
    /\ inv = <<>>
    /\ published = 0

\* the handler invocations blocked in "msg <- ..."
Sending == { i \in 1..Len(inv) : inv[i].state = "sending" }

\* lines 104-117: the call makes its channel and handler and registers the handler
SubscribeCall(c) ==
    /\ sub[c] = "idle"
    /\ \A b \in Calls : b < c => sub[b] # "idle"
    /\ route' = c
    /\ sub' = [sub EXCEPT ![c] = "subscribing"]
    /\ UNCHANGED <<order, ret, inv, published>>
    /\ UNCHANGED httpVars

\* lines 119-123: the token reports an error; the call returns (nil, err)
SubscribeFails(c) ==
    /\ sub[c] = "subscribing"
    /\ sub' = [sub EXCEPT ![c] = "failed"]
    /\ UNCHANGED <<order, route, ret, inv, published>>
    /\ UNCHANGED httpVars

\* lines 119-128: the token reports success; the call goes on to "<-msg"
SubscribeSucceeds(c) ==
    /\ sub[c] = "subscribing"
    /\ sub' = [sub EXCEPT ![c] = "receiving"]
    /\ UNCHANGED <<order, route, ret, inv, published>>
    /\ UNCHANGED httpVars

\* lines 110-115: a message arrives and the client invokes the registered handler,
\* which starts its send on the channel of the call that made it
Deliver ==
    /\ route # 0
    /\ published < MaxMsgs
    /\ order => Sending = {}
    /\ published' = published + 1
    /\ inv' = Append(inv, [call |-> route, msg |-> published + 1, state |-> "sending"])
    /\ UNCHANGED <<order, route, sub, ret>>
    /\ UNCHANGED httpVars

\* line 128 meets line 111: the call's receive takes the message of one blocked send
Receive(c, i) ==
    /\ sub[c] = "receiving"
    /\ i \in Sending
    /\ inv[i].call = c
    /\ inv' = [inv EXCEPT ![i].state = "done"]
    /\ ret' = [ret EXCEPT ![c] = inv[i].msg]
    /\ sub' = [sub EXCEPT ![c] = "returned"]
    /\ UNCHANGED <<order, route, published>>
    /\ UNCHANGED httpVars

MqttNext ==
    \/ \E c \in Calls : SubscribeCall(c)
    \/ \E c \in Calls : SubscribeFails(c)
    \/ \E c \in Calls : SubscribeSucceeds(c)
    \/ Deliver
    \/ \E c \in Calls : \E i \in 1..Len(inv) : Receive(c, i)

MqttInit == HttpInit /\ MqttStart

MqttSpec == MqttInit /\ [][MqttNext]_vars

(***************************************************************************)
(* Properties of the HTTP dispatch, checked under Spec.                    *)
(***************************************************************************)
RECURSIVE Leaves(_)
RECURSIVE LeavesOf(_)
\* the errors of e that are not MultipleErrors, left to right
Leaves(e) ==
    IF e.kind = "MultipleErrors" THEN LeavesOf(e.Errors) ELSE <<e>>

LeavesOf(es) ==
    IF es = <<>> THEN <<>> ELSE Leaves(Head(es)) \o LeavesOf(Tail(es))

\* request r has called Respond
Written(r) == pc[r] = "done"
\* and its handler's error went through processErrors
Processed(r) == Written(r) /\ err[r] # Nil /\ err[r].kind # "EntityAlreadyExists"
\* the error handed to the output writer
Emitted(r) == respondCalls[r][1].err
\* the positions of the result
Entries(r) == 1..Len(Emitted(r).Errors)
FaultStatuses == {0, StatusInternalServerError}

\* C1 as claimed: every ErrorResponse handed to the output writer for a non-nil
\* error other than a top-level EntityAlreadyExists has a non-zero status code
\* and a non-empty reason.
C1_Totality ==
    \A r \in Requests :
        Processed(r) =>
            \A i \in Entries(r) :
                Emitted(r).Errors[i].kind = "Response" =>
                    /\ Emitted(r).Errors[i].StatusCode # 0
                    /\ Emitted(r).Errors[i].Reason # ""

\* C1 amended: there is one entry per leaf error; an ErrorResponse made for a leaf
\* that is not a PreformedResponse has a non-zero status code, and a non-empty
\* reason unless the leaf's own message is empty; a PreformedResponse is
\* emitted with the status code and the reason it was given.
C1_TotalityAmended ==
    \A r \in Requests :
        Processed(r) =>
            /\ Len(Emitted(r).Errors) = Len(Leaves(err[r]))
            /\ \A i \in Entries(r) :
                 LET l == Leaves(err[r])[i]
                     x == Emitted(r).Errors[i]
                 IN x.kind = "Response" =>
                      IF l.kind = "Response"
                      THEN x.StatusCode = l.StatusCode /\ x.Reason = l.Reason
                      ELSE /\ x.StatusCode # 0
                           /\ ErrorString(l) # "" => x.Reason # ""

\* C1 witness: a nested MultiError with an unclassified leaf, answered with 500.
C1_Witness ==
    /\ Processed(First)
    /\ err[First].kind = "MultipleErrors"
    /\ Len(Leaves(err[First])) = 2
    /\ \E i \in Entries(First) :
         /\ Leaves(err[First])[i].kind = "Unclassified"
         /\ Emitted(First).Errors[i].StatusCode = StatusInternalServerError
         /\ Emitted(First).Errors[i].Reason = "boom"

\* a Raw among the leaves of e
HasRaw(e) == \E i \in 1..Len(Leaves(e)) : Leaves(e)[i].kind = "Raw"

\* C2 as claimed: for a MultiError holding a Raw at any position or depth the
\* result is that Raw alone, with the Raw's status code.
C2_RawShortCircuit ==
    \A r \in Requests :
        (Processed(r) /\ err[r].kind = "MultipleErrors" /\ HasRaw(err[r])) =>
            /\ Len(Emitted(r).Errors) = 1
            /\ Emitted(r).Errors[1].kind = "Raw"
            /\ Emitted(r).StatusCode = Emitted(r).Errors[1].StatusCode

\* C2 amended: a Raw given to processErrors directly yields a single-element
\* MultiError holding that Raw, with the Raw's status code; a Raw inside a
\* MultiError is kept as it is at its own position among the results of its
\* siblings, none of which is dropped, and the result carries the outer
\* MultiError's status code.
C2_RawKeptInPlace ==
    \A r \in Requests :
        /\ (Processed(r) /\ err[r].kind = "Raw") =>
              Emitted(r) = MultipleErrors(err[r].StatusCode, <<err[r]>>)
        /\ (Processed(r) /\ err[r].kind = "MultipleErrors" /\ HasRaw(err[r])) =>
              /\ Emitted(r).StatusCode = err[r].StatusCode
              /\ Len(Emitted(r).Errors) = Len(Leaves(err[r]))
              /\ \A i \in Entries(r) :
                   IF Leaves(err[r])[i].kind = "Raw"
                   THEN Emitted(r).Errors[i] = Leaves(err[r])[i]
                   ELSE Emitted(r).Errors[i].kind = "Response"

\* C2 witness: a Raw nested below a sibling; both are in the result.
C2_Witness ==
    /\ Processed(First)
    /\ err[First] = MultipleErrors(207, <<DB("row not found"),
                                          MultipleErrors(400, <<Raw(418, "raw body")>>)>>)
    /\ Len(Emitted(First).Errors) = 2
    /\ Emitted(First).Errors[2] = Raw(418, "raw body")
    /\ Emitted(First).StatusCode = 207

\* C3 as claimed: for one DatabaseError or unclassified error the fault counter
\* is not incremented when the payload is non-nil and is incremented exactly
\* once when the payload is nil.
C3_PartialExemption ==
    \A r \in Requests :
        (Written(r) /\ err[r].kind \in {"DB", "Unclassified"}) =>
            /\ data[r] # NilData => Len(incCalls[r]) = 0
            /\ data[r] = NilData => Len(incCalls[r]) = 1

\* C4 as claimed: the fault counter is incremented only for errors whose emitted
\* ErrorResponse has status code 500 or 0, so no more often than there are
\* such ErrorResponses in the result.
C4_CountedOnlyFaults ==
    \A r \in Requests :
        Processed(r) =>
            Len(incCalls[r]) <=
                Cardinality({ i \in Entries(r) :
                                /\ Emitted(r).Errors[i].kind = "Response"
                                /\ Emitted(r).Errors[i].StatusCode \in FaultStatuses })

\* the ErrorResponse x is the one made for the leaf l
MadeFor(l, x) ==
    /\ x.kind = "Response"
    /\ CASE l.kind = "DB" ->
              x.StatusCode = StatusInternalServerError /\ x.Reason = "DB Error"
         [] l.kind = "Response" ->
              x.StatusCode = l.StatusCode /\ x.Code = l.Code /\ x.Reason = l.Reason
         [] OTHER -> x.Reason = ErrorString(l)

\* C5: a MultiError nested to any depth whose N leaves are neither Raw nor
\* MultiError yields exactly N entries, one per leaf in the original order, none
\* a MultiError, with the outermost MultiError's status code.
C5_Flattening ==
    \A r \in Requests :
        (Processed(r) /\ err[r].kind = "MultipleErrors" /\ ~HasRaw(err[r])) =>
            /\ Len(Emitted(r).Errors) = Len(Leaves(err[r]))
            /\ \A i \in Entries(r) : MadeFor(Leaves(err[r])[i], Emitted(r).Errors[i])
            /\ Emitted(r).StatusCode = err[r].StatusCode

\* C5 witness: two distinct leaves, the second nested under another status code.
C5_Witness ==
    /\ Processed(First)
    /\ err[First] = MultipleErrors(207, <<DB("row not found"),
                                          MultipleErrors(400, <<BadInput>>)>>)
    /\ Len(Emitted(First).Errors) = 2
    /\ Emitted(First).Errors[1].Reason = "DB Error"
    /\ Emitted(First).Errors[2].Reason = "bad input"
    /\ Emitted(First).StatusCode = 207

\* the strings of an ErrorResponse
Fields(x) ==
    {x.Code, x.Reason, x.ResourceID, x.Path, x.DateTime.Value, x.DateTime.TimeZone}

\* C6: the ErrorResponse emitted for a DatabaseError, at top level or as a leaf,
\* has reason "DB Error" and status 500, and the wrapped error's message is in no
\* field of any ErrorResponse handed to the output writer.
C6_Redaction ==
    \A r \in Requests :
        Processed(r) =>
            \A i \in 1..Len(Leaves(err[r])) :
                Leaves(err[r])[i].kind = "DB" =>
                    /\ Emitted(r).Errors[i].kind = "Response"
                    /\ Emitted(r).Errors[i].Reason = "DB Error"
                    /\ Emitted(r).Errors[i].StatusCode = StatusInternalServerError
                    /\ \A j \in Entries(r) :
                         Emitted(r).Errors[j].kind = "Response" =>
                             Leaves(err[r])[i].Err \notin Fields(Emitted(r).Errors[j])

\* C6 witness: a DatabaseError as a leaf beside another error.
C6_Witness ==
    /\ Processed(First)
    /\ err[First].kind = "MultipleErrors"
    /\ Len(Emitted(First).Errors) = 2
    /\ \E i \in Entries(First) :
         /\ Leaves(err[First])[i] = DB("row not found")
         /\ Emitted(First).Errors[i].Reason = "DB Error"

\* C7: a nil error or an EntityAlreadyExists is handed to the output writer
\* unchanged, without a call of the aggregator, an increment of the fault counter
\* or the context attribute; every other error is answered with the aggregator's
\* MultiError and sets the context attribute.
C7_PassThrough ==
    \A r \in Requests :
        Written(r) =>
            IF err[r] = Nil \/ err[r].kind = "EntityAlreadyExists"
            THEN /\ Emitted(r) = err[r]
                 /\ aggregatorCalls[r] = 0
                 /\ incCalls[r] = <<>>
                 /\ ctxErrorMessage[r] = <<>>
            ELSE /\ Emitted(r).kind = "MultipleErrors"
                 /\ Len(Emitted(r).Errors) = Len(Leaves(err[r]))
                 /\ aggregatorCalls[r] = 1
                 /\ ctxErrorMessage[r] = <<ErrorString(err[r])>>

\* C7 witness: an EntityAlreadyExists beside a payload, handed on as it is.
C7_Witness ==
    /\ Written(First)
    /\ err[First] = EntityAlreadyExists
    /\ data[First] # NilData
    /\ Emitted(First) = EntityAlreadyExists
    /\ ctxErrorMessage[First] = <<>>

\* C8: the output writer is called exactly once; its body is chosen by the
\* payload's type alone (a Response by pointer; a Template, File, *Response or
\* RawWithOptions as it is; a Raw's inner data; anything else, nil included,
\* in a default Response envelope), and its error is the one computed from err.
C8_WireShape ==
    \A r \in Requests :
        Written(r) =>
            /\ Len(respondCalls[r]) = 1
            /\ LET b == respondCalls[r][1].body
               IN CASE data[r].type = "types.Response" ->
                         b = [type |-> "*types.Response", Data |-> data[r].Data]
                    [] data[r].type \in {"template.Template", "template.File",
                                         "*types.Response", "types.RawWithOptions"} ->
                         b = data[r]
                    [] data[r].type = "types.Raw" -> b = data[r].Data
                    [] OTHER -> b = [type |-> "*types.Response", Data |-> data[r]]
            /\ IF err[r] = Nil \/ err[r].kind = "EntityAlreadyExists"
               THEN Emitted(r) = err[r]
               ELSE Emitted(r).kind = "MultipleErrors"

\* C8 witness: a Raw payload beside an error: only its inner data is the body.
C8_Witness ==
    /\ Written(First)
    /\ data[First].type = "types.Raw"
    /\ err[First].kind = "InvalidParam"
    /\ respondCalls[First][1].body = Inner
    /\ Emitted(First).kind = "MultipleErrors"

\* C9 as claimed: a PreformedResponse whose timestamp value is empty when the
\* handler returns it is emitted with a non-empty timestamp value and a
\* non-empty zone, those of one reading of the clock during this dispatch; one
\* whose timestamp value is non-empty then is emitted with its value and zone
\* as they were.
C9_TimestampDefaulting ==
    \A r \in Requests :
        Processed(r) =>
            \A i \in 1..Len(Leaves(err[r])) :
                LET l == Leaves(err[r])[i]
                    x == Emitted(r).Errors[i]
                IN l.kind = "Response" =>
                     IF l.DateTime.Value = ""
                     THEN /\ x.DateTime.Value # ""
                          /\ x.DateTime.TimeZone # ""
                          /\ \E k \in started[r]..ended[r] :
                               x.DateTime = evaluateTimeAndTimeZone(Instants[k])
                     ELSE x.DateTime = l.DateTime

(***************************************************************************)
(* Property of MQTT.Subscribe, checked under MqttSpec.                     *)
(***************************************************************************)
\* C10 as claimed: every send of a handler registered by Subscribe completes.
\* The channel's only receive is the one the call makes before it returns, so
\* a send that is still blocked once the call has returned never completes:
\* no handler invocation is sending on the channel of a returned call.
C10_EverySendCompletes ==
    \A i \in 1..Len(inv) :
        inv[i].state = "sending" => sub[inv[i].call] # "returned"

====
